---------------------------- MODULE Spec2Model ----------------------------
(***************************************************************************)
(* Model of the two reconciliation programs of the repository:            *)
(*   - src/sync_blocklist.py            (flow "sync_blocklist")           *)
(*   - src/sync_blocked_email_domains/main.py   (flow "main")             *)
(* Python strings are sequences of character codes, so that lower(),      *)
(* strip(), split() and sorted() are computed and not assumed.            *)
(***************************************************************************)
EXTENDS Integers, Sequences, FiniteSets, TLC

(***************************************************************************)
(* Bounds of the model.                                                    *)
(***************************************************************************)
\* largest number of domains in the desired list and in the remote list
MaxDomains == 2

\* program constant: MAX_RETRIES of sync_blocklist.py
MAX_RETRIES == 5

(***************************************************************************)
(* Strings.                                                                *)
(***************************************************************************)
\* "A", "a", "b", "c": the domain names the lists are drawn from
DomainNames == { <<65>>, <<97>>, <<98>>, <<99>> }

\* str.lower() on one character code (ASCII letters)
LowerChar(c) == IF c >= 65 /\ c <= 90 THEN c + 32 ELSE c

\* str.lower()
Lower(s) == [i \in 1..Len(s) |-> LowerChar(s[i])]

\* Python's order on strings: lexicographic on the code points
RECURSIVE StrLess(_, _)
StrLess(s, t) ==
    IF s = <<>> THEN t # <<>>
    ELSE IF t = <<>> THEN FALSE
    ELSE IF Head(s) # Head(t) THEN Head(s) < Head(t)
    ELSE StrLess(Tail(s), Tail(t))

\* faulty variant: the greatest string comes first
RECURSIVE SortedDescending(_)
SortedDescending(S) ==
    IF S = {} THEN <<>>
    ELSE LET m == CHOOSE x \in S : \A y \in S \ {x} : StrLess(y, x)
         IN  <<m>> \o SortedDescending(S \ {m})

\* sorted(S) for a set of strings
RECURSIVE Sorted(_)
Sorted(S) ==
    IF S = {} THEN <<>>
    ELSE LET m == CHOOSE x \in S : \A y \in S \ {x} : StrLess(x, y)
         IN  <<m>> \o Sorted(S \ {m})

\* the strings "true", "TRUE", "1", "yes" of the DRY_RUN variable
StrTrue == <<116, 114, 117, 101>>
StrTRUE == <<84, 82, 85, 69>>
StrOne == <<49>>
StrYes == <<121, 101, 115>>
StrFalse == <<102, 97, 108, 115, 101>>

\* an environment variable: set or not, and its value when set
EnvUnset == [set |-> FALSE, val |-> <<>>]
EnvStr(s) == [set |-> TRUE, val |-> s]

\* os.getenv(name): the value, None when the variable is not set
IsNone(e) == ~e.set

\* truth value of os.getenv(name): None and "" are falsy
Truthy(e) == e.set /\ e.val # <<>>

\* os.getenv(name, default)
GetEnv(e, default) == IF e.set THEN e.val ELSE default

\* sets of size at most n
SubsetsUpTo(S, n) == { T \in SUBSET S : Cardinality(T) <= n }

\* str.strip(): leading and trailing blanks removed
RECURSIVE LStrip(_)
LStrip(s) == IF s # <<>> /\ Head(s) = 32 THEN LStrip(Tail(s)) ELSE s

RECURSIVE RStrip(_)
RStrip(s) ==
    IF s # <<>> /\ s[Len(s)] = 32 THEN RStrip(SubSeq(s, 1, Len(s) - 1)) ELSE s

Strip(s) == RStrip(LStrip(s))

\* s.split(c) for a separator of one character: at least one piece
RECURSIVE Split(_, _)
Split(s, c) ==
    IF \A i \in 1..Len(s) : s[i] # c THEN << s >>
    ELSE LET k == CHOOSE i \in 1..Len(s) :
                      s[i] = c /\ \A j \in 1..(i - 1) : s[j] # c
         IN  << SubSeq(s, 1, k - 1) >> \o Split(SubSeq(s, k + 1, Len(s)), c)

\* str.splitlines() for "\n" line ends: no piece for a final line end
SplitLines(s) ==
    IF s = <<>> THEN <<>>
    ELSE LET pieces == Split(s, 10)
         IN  IF pieces[Len(pieces)] = <<>>
             THEN SubSeq(pieces, 1, Len(pieces) - 1) ELSE pieces

\* sub in s
Contains(s, sub) ==
    \E i \in 0..(Len(s) - Len(sub)) : SubSeq(s, i + 1, i + Len(sub)) = sub

\* faulty variant: the brackets are kept
InnerKeepsBrackets(s) == s

\* s[1:-1]
Inner(s) == SubSeq(s, 2, Len(s) - 1)

\* "\n".join(lines)
RECURSIVE JoinLines(_)
JoinLines(lines) ==
    IF lines = <<>> THEN <<>>
    ELSE IF Len(lines) = 1 THEN lines[1]
    ELSE lines[1] \o << 10 >> \o JoinLines(Tail(lines))

\* sequences over S of length at most n
SeqsUpTo(S, n) == UNION { [1..k -> S] : k \in 0..n }

(***************************************************************************)
(* Numbers in strings.                                                     *)
(***************************************************************************)
IsDigitChar(c) == c >= 48 /\ c <= 57

\* str.isdigit(): not empty and every character a digit
IsDigit(s) == s # <<>> /\ \A i \in 1..Len(s) : IsDigitChar(s[i])

\* value of a string of digits
RECURSIVE DigitsValue(_)
DigitsValue(s) ==
    IF s = <<>> THEN 0
    ELSE 10 * DigitsValue(SubSeq(s, 1, Len(s) - 1)) + (s[Len(s)] - 48)

\* int(s): [ok, val]; ok = FALSE stands for the ValueError int() raises.
\* An optional sign followed by digits is accepted.
ParseInt(s) ==
    IF IsDigit(s) THEN [ok |-> TRUE, val |-> DigitsValue(s)]
    ELSE IF s # <<>> /\ Head(s) = 45 /\ IsDigit(Tail(s))
         THEN [ok |-> TRUE, val |-> 0 - DigitsValue(Tail(s))]
    ELSE IF s # <<>> /\ Head(s) = 43 /\ IsDigit(Tail(s))
         THEN [ok |-> TRUE, val |-> DigitsValue(Tail(s))]
    ELSE [ok |-> FALSE, val |-> 0]

\* s.rstrip('Z')
RECURSIVE RStripZ(_)
RStripZ(s) ==
    IF s # <<>> /\ s[Len(s)] = 90 THEN RStripZ(SubSeq(s, 1, Len(s) - 1)) ELSE s

\* int(datetime.fromisoformat(s).timestamp()): [ok, val].  A timestamp is
\* written here as "T" followed by the digits of its epoch value; any other
\* string is one fromisoformat rejects.
FromIso(s) ==
    IF s # <<>> /\ Head(s) = 84 /\ IsDigit(Tail(s))
    THEN [ok |-> TRUE, val |-> DigitsValue(Tail(s))]
    ELSE [ok |-> FALSE, val |-> 0]

Max(a, b) == IF a >= b THEN a ELSE b

RECURSIVE Pow2(_)
Pow2(n) == IF n = 0 THEN 1 ELSE 2 * Pow2(n - 1)

(***************************************************************************)
(* Responses of the remote service.                                        *)
(***************************************************************************)
\* header values: "" (the header is absent), "0", "1", "2", "4", "9", "x",
\* "-1", "T4Z"
HAbsent == <<>>
H0 == <<48>>
H1 == <<49>>
H2 == <<50>>
H4 == <<52>>
H9 == <<57>>
HBad == <<120>>
HNeg == <<45, 49>>
HIso == <<84, 52, 90>>

\* X-RateLimit-Limit, X-RateLimit-Remaining and X-RateLimit-Reset of a response
RateHeaders ==
    { [limit |-> HAbsent, remaining |-> HAbsent, reset |-> HAbsent],
      [limit |-> H9, remaining |-> H1, reset |-> H4],
      [limit |-> H9, remaining |-> H2, reset |-> H4],
      [limit |-> H9, remaining |-> H0, reset |-> H4],
      [limit |-> HAbsent, remaining |-> H1, reset |-> H4],
      [limit |-> H9, remaining |-> H1, reset |-> HAbsent],
      [limit |-> H9, remaining |-> H1, reset |-> HBad],
      [limit |-> H9, remaining |-> HBad, reset |-> H4],
      [limit |-> HBad, remaining |-> H1, reset |-> H4],
      [limit |-> H9, remaining |-> H1, reset |-> HIso] }

\* the rate-limit headers of the responses within a run
RunRateHeaders ==
    { [limit |-> HAbsent, remaining |-> HAbsent, reset |-> HAbsent],
      [limit |-> H9, remaining |-> H1, reset |-> H4],
      [limit |-> H9, remaining |-> H2, reset |-> H4] }

\* Retry-After of a 429 response
RetryAfterValues == { HAbsent, H2, HBad, HNeg }

\* values of int(time.time()) when a response is handled
Times == { 2, 6 }

\* the request carries a host and a token the service can accept
AuthOK(host, token) == Truthy(host) /\ Truthy(token)

\* status codes the service answers a POST with
PostStatuses(host, token) ==
    IF AuthOK(host, token) THEN { 200, 201, 422, 429, 500 } ELSE { 401, 429 }

\* status codes the service answers a DELETE with
DeleteStatuses(host, token) ==
    IF AuthOK(host, token) THEN { 200, 204, 404, 429, 500 } ELSE { 401, 429 }

\* the service applied the mutation
Accepted(status) == status >= 200 /\ status <= 299

(***************************************************************************)
(* sync_blocklist.py                                                       *)
(***************************************************************************)
\* the rate-limit check of post_with_retry: the seconds slept, 0 for no sleep
RateLimitWait(h, now) ==
    IF h.limit # <<>> /\ h.remaining # <<>> /\ h.reset # <<>>
    THEN LET lim == ParseInt(h.limit)
             rem == ParseInt(h.remaining)
             parsed == lim.ok /\ rem.ok
             reset_epoch ==
                 IF ~parsed THEN now
                 ELSE IF IsDigit(h.reset) THEN DigitsValue(h.reset)
                 ELSE IF FromIso(RStripZ(h.reset)).ok
                      THEN FromIso(RStripZ(h.reset)).val
                 ELSE now
         IN  IF parsed /\ rem.val = 1 THEN Max(reset_epoch - now, 1) ELSE 0
    ELSE 0

VARIABLES
    flow,               \* which program runs: "sync_blocklist" or "main"
    run,                \* 1 for the first run, 2 for the run that follows it
    MASTODON_HOST,      \* environment
    MASTODON_API_TOKEN, \* environment
    DRY_RUN_ENV,        \* environment: the DRY_RUN variable
    blocklist,          \* the desired list as the source gives it
    remote,             \* the domains the remote service holds
    pc,                 \* position in the program
    exit_status,        \* process exit status once pc = "exit"
    error,              \* the exception that ended the run, "" for none
    desired_blocklist,
    current_blocklist,
    to_add,
    to_remove,
    already,
    todo,               \* what is left of the sorted iteration in progress
    domain,             \* the loop variable of that iteration
    retries,            \* retries of post_with_retry
    added_count,
    removed_count,
    already_count,
    failed_count,
    summary,            \* what log_summary printed, <<>> before
    gets,               \* history: state fetch requests sent in this run
    posted,             \* history: domains a POST was sent for in this run
    deleted,            \* history: domains a DELETE was sent for in this run
    attempts,           \* history: POSTs sent by the post_with_retry call in
                        \* progress or just returned, 0 once the loop moves on
    rejected,           \* history: 429 answers among them
    result,             \* history: how each domain's operation ended
    last,               \* history: the mutation call of the latest step and
                        \* its handling, NoCall if that step sent none; due
                        \* is the sleep the rate-limit check gives for the
                        \* headers of the response, guard the sleep applied
    first,              \* history: how the first run ended
    refused,            \* history: some mutation call of this run was not
                        \* answered with a 2xx status
    disposable_domains, \* main.py: sync_domains
    existing_blocks,
    domains_to_add,
    stats,
    url,                \* main.py: the page get_existing_blocks asks for next
    blocked_domains,    \* main.py: the set get_existing_blocks builds
    requested,          \* history: the pages asked for, in order
    served,             \* history: the domain values of the pages received
    response,           \* the rate-limit check alone: the headers it reads
    clock               \* the rate-limit check alone: int(time.time())

vars == << flow, run, MASTODON_HOST, MASTODON_API_TOKEN, DRY_RUN_ENV, blocklist,
           remote, pc, exit_status, error, desired_blocklist, current_blocklist,
           to_add, to_remove, already, todo, domain, retries, added_count,
           removed_count, already_count, failed_count, summary, gets, posted,
           deleted, attempts, rejected, result, last, first, refused,
           disposable_domains, existing_blocks, domains_to_add, stats, url,
           blocked_domains, requested, served, response, clock >>

\* the variables of main.py alone
main_locals == << disposable_domains, existing_blocks, domains_to_add, stats,
                  url, blocked_domains, requested, served >>

\* the variables of sync_blocklist.py alone
blocklist_locals == << run, desired_blocklist, current_blocklist, to_add,
                       to_remove, already, retries, added_count,
                       removed_count, already_count, failed_count, summary,
                       deleted, attempts, rejected, first, refused >>

env == << flow, MASTODON_HOST, MASTODON_API_TOKEN, DRY_RUN_ENV >>

\* the variables of the rate-limit check run alone
guard_locals == << response, clock >>

sets == << desired_blocklist, current_blocklist, to_add, to_remove, already >>

counts == << added_count, removed_count, already_count, failed_count >>

\* values of the environment variables
HostValues == { EnvUnset, EnvStr(<<>>), EnvStr(<<104>>) }
TokenValues == { EnvUnset, EnvStr(<<116>>) }
DryRunValues == { EnvUnset, EnvStr(StrTRUE), EnvStr(StrOne) }

\* DRY_RUN of sync_blocklist.py
DRY_RUN == Lower(GetEnv(DRY_RUN_ENV, StrFalse)) \in { StrOne, StrTrue, StrYes }

NoHeaders == [limit |-> HAbsent, remaining |-> HAbsent, reset |-> HAbsent]

NoCall == [method |-> "", domain |-> <<>>, status |-> 0, due |-> 0, guard |-> 0,
           backoff |-> 0]

NoFirst == [failed |-> FALSE, noop |-> FALSE, added |-> FALSE,
            removed |-> FALSE]

NoResults == [d \in DomainNames |-> ""]

NoStats == [total_disposable |-> 0, existing_blocks |-> 0, to_add |-> 0,
            added |-> 0, failed |-> 0]

InitCommon ==
    /\ run = 1
    /\ MASTODON_HOST \in HostValues
    /\ MASTODON_API_TOKEN \in TokenValues
    /\ DRY_RUN_ENV \in DryRunValues
    /\ remote \in SubsetsUpTo(DomainNames, MaxDomains)
    /\ exit_status = 0
    /\ error = ""
    /\ desired_blocklist = {}
    /\ current_blocklist = {}
    /\ to_add = {}
    /\ to_remove = {}
    /\ already = {}
    /\ todo = <<>>
    /\ domain = <<>>
    /\ retries = 0
    /\ added_count = 0
    /\ removed_count = 0
    /\ already_count = 0
    /\ failed_count = 0
    /\ summary = <<>>
    /\ gets = 0
    /\ posted = {}
    /\ deleted = {}
    /\ attempts = 0
    /\ rejected = 0
    /\ result = NoResults
    /\ last = NoCall
    /\ first = NoFirst
    /\ refused = FALSE
    /\ disposable_domains = {}
    /\ existing_blocks = {}
    /\ domains_to_add = {}
    /\ stats = NoStats
    /\ url = <<>>
    /\ blocked_domains = {}
    /\ requested = <<>>
    /\ served = {}

InitBlocklist ==
    /\ flow = "sync_blocklist"
    /\ pc = "sync_blocklist"
    /\ blocklist \in SubsetsUpTo(DomainNames, MaxDomains)
    /\ InitCommon
    /\ response = NoHeaders
    /\ clock = 0

\* an uncaught exception ends the process with a traceback and status 1
Raise(exc) ==
    /\ pc' = "exit"
    /\ exit_status' = 1
    /\ error' = exc

\* get_mastodon_blocklist(): the set of the domain values the service returns
get_mastodon_blocklist(blocks) == { b : b \in blocks }

\* sync_blocklist, up to the first loop: fetch, URL, counters, the three sets
Begin ==
    /\ flow = "sync_blocklist"
    /\ UNCHANGED << blocklist, main_locals >>
    /\ pc = "sync_blocklist"
    /\ UNCHANGED << env, guard_locals, run, remote, domain, retries, posted, deleted,
                    attempts, rejected, result, last, first, refused,
                    summary >>
    /\ desired_blocklist' = blocklist
    /\ gets' = IF Truthy(MASTODON_HOST) /\ Truthy(MASTODON_API_TOKEN)
               THEN gets + 1 ELSE gets
    /\ \/ \* the state fetch raises (transport error, error status)
          /\ Truthy(MASTODON_HOST) /\ Truthy(MASTODON_API_TOKEN)
          /\ Raise("MastodonError")
          /\ UNCHANGED << current_blocklist, to_add, to_remove, already, todo,
                          counts >>
       \/ \* MASTODON_HOST.rstrip on None
          /\ IsNone(MASTODON_HOST)
          /\ Raise("AttributeError")
          /\ UNCHANGED << current_blocklist, to_add, to_remove, already, todo,
                          counts >>
       \/ /\ ~IsNone(MASTODON_HOST)
          /\ LET cur == IF Truthy(MASTODON_HOST) /\ Truthy(MASTODON_API_TOKEN)
                        THEN get_mastodon_blocklist(remote) ELSE {}
             IN  /\ current_blocklist' = cur
                 /\ to_add' = blocklist \ cur
                 /\ to_remove' = cur \ blocklist
                 /\ already' = blocklist \cap cur
          /\ added_count' = 0
          /\ removed_count' = 0
          /\ already_count' = 0
          /\ failed_count' = 0
          /\ todo' = Sorted(blocklist)
          /\ pc' = "add_loop"
          /\ UNCHANGED << exit_status, error >>

\* faulty variant: the loop runs one pass more
RetryAllowedOnceMore(r) == r <= MAX_RETRIES + 1

\* the loop condition of post_with_retry
RetryAllowed(r) == r <= MAX_RETRIES

\* faulty variant: 422 is handled like any other error status
PostOutcomeDuplicateFails(status) ==
    IF status = 200 THEN "True"
    ELSE IF status = 429 THEN "retry"
    ELSE "False"

\* faulty variant: every status but 429 returns True
PostOutcomeErrorSucceeds(status) ==
    IF status = 429 THEN "retry" ELSE "True"

\* what post_with_retry does with a status: return True, retry, return False
PostOutcome(status) ==
    IF status = 200 THEN "True"
    ELSE IF status = 422 THEN "True"
    ELSE IF status = 429 THEN "retry"
    ELSE "False"

\* faulty variant: the DRY_RUN test is missing
SkipMutationNever(dry) == FALSE

\* the DRY_RUN test at the head of both loops of sync_blocklist
SkipMutation(dry) == dry

\* faulty variant: the membership test is missing
AlreadyBlockedNever(d, cur) == FALSE

\* the membership test of the first loop of sync_blocklist
AlreadyBlocked(d, cur) == d \in cur

\* the status test of the remove loop
RemoveSucceeded(status) == status = 200

\* the responses the service may give to a POST
PostResponses ==
    { r \in [status : PostStatuses(MASTODON_HOST, MASTODON_API_TOKEN),
             h : RunRateHeaders, retry_after : RetryAfterValues] :
        r.status # 429 => r.retry_after = HAbsent }

\* the responses the service may give to a DELETE
DeleteResponses ==
    [status : DeleteStatuses(MASTODON_HOST, MASTODON_API_TOKEN),
     h : RunRateHeaders]

\* the first loop of sync_blocklist: one domain of sorted(desired_blocklist)
AddNext ==
    /\ flow = "sync_blocklist"
    /\ UNCHANGED << blocklist, main_locals >>
    /\ pc = "add_loop"
    /\ todo # <<>>
    /\ domain' = Head(todo)
    /\ todo' = Tail(todo)
    /\ IF SkipMutation(DRY_RUN)
       THEN /\ result' = [result EXCEPT ![Head(todo)] = "dry"]
            /\ UNCHANGED << pc, retries, counts >>
       ELSE IF AlreadyBlocked(Head(todo), current_blocklist)
       THEN /\ already_count' = already_count + 1
            /\ result' = [result EXCEPT ![Head(todo)] = "already"]
            /\ UNCHANGED << pc, retries, added_count, removed_count,
                            failed_count >>
       ELSE /\ pc' = "post_with_retry"
            /\ retries' = 0
            /\ UNCHANGED << result, counts >>
    /\ attempts' = 0
    /\ rejected' = 0
    /\ last' = NoCall
    /\ UNCHANGED << env, guard_locals, run, remote, exit_status, error, sets, summary, gets,
                    posted, deleted, first, refused >>

\* post_with_retry returned: the caller counts the domain
AddReturn(ok, how) ==
    /\ IF ok
       THEN added_count' = added_count + 1 /\ failed_count' = failed_count
       ELSE failed_count' = failed_count + 1 /\ added_count' = added_count
    /\ result' = [result EXCEPT ![domain] = how]
    /\ pc' = "add_loop"
    /\ UNCHANGED << removed_count, already_count, exit_status, error >>

\* one pass of the loop of post_with_retry: POST, rate-limit check, status
PostAttempt ==
    /\ flow = "sync_blocklist"
    /\ UNCHANGED << blocklist, main_locals >>
    /\ pc = "post_with_retry"
    /\ RetryAllowed(retries)
    /\ UNCHANGED << env, guard_locals, run, sets, todo, domain, summary, gets, deleted,
                    first >>
    /\ IF ~Truthy(MASTODON_HOST)
           THEN \* the URL has no scheme: requests raises before sending
                /\ Raise("MissingSchema")
                /\ UNCHANGED << remote, retries, counts, posted,
                                attempts, rejected, result, last, refused >>
           ELSE
           /\ posted' = posted \cup {domain}
           /\ attempts' = attempts + 1
           /\ \/ \* no response: requests raises
                 /\ Raise("ConnectionError")
                 /\ last' = [method |-> "POST", domain |-> domain, status |-> 0,
                             due |-> 0, guard |-> 0, backoff |-> 0]
                 /\ refused' = TRUE
                 /\ UNCHANGED << remote, retries, counts, rejected, result >>
              \/ \E r \in PostResponses, now \in Times :
                 LET outcome == PostOutcome(r.status)
                     after == ParseInt(r.retry_after)
                     wait == IF r.retry_after # <<>> THEN after.val
                             ELSE Pow2(retries)
                     called == [method |-> "POST", domain |-> domain,
                                status |-> r.status,
                                due |-> RateLimitWait(r.h, now),
                                guard |-> RateLimitWait(r.h, now),
                                backoff |-> 0]
                 IN  /\ remote' = IF Accepted(r.status) THEN remote \cup {domain}
                                  ELSE remote
                     /\ rejected' = IF r.status = 429 THEN rejected + 1
                                    ELSE rejected
                     /\ refused' = (refused \/ ~Accepted(r.status))
                     /\ IF outcome = "True"
                        THEN /\ AddReturn(TRUE,
                                          IF r.status = 422 THEN "noop" ELSE "added")
                             /\ last' = called
                             /\ UNCHANGED retries
                        ELSE IF outcome = "False"
                        THEN /\ AddReturn(FALSE, "failed")
                             /\ last' = called
                             /\ UNCHANGED retries
                        ELSE IF r.retry_after # <<>> /\ ~after.ok
                        THEN \* int(retry_after) raises
                             /\ Raise("ValueError")
                             /\ last' = called
                             /\ UNCHANGED << retries, counts, result >>
                        ELSE IF wait < 0
                        THEN \* time.sleep of a negative length raises
                             /\ Raise("ValueError")
                             /\ last' = called
                             /\ UNCHANGED << retries, counts, result >>
                        ELSE /\ retries' = retries + 1
                             /\ last' = [called EXCEPT !.backoff = wait]
                             /\ UNCHANGED << pc, exit_status, error, counts,
                                             result >>

\* the loop of post_with_retry ends: max retries exceeded, return False
PostGiveUp ==
    /\ flow = "sync_blocklist"
    /\ UNCHANGED << blocklist, main_locals >>
    /\ pc = "post_with_retry"
    /\ ~RetryAllowed(retries)
    /\ AddReturn(FALSE, "failed")
    /\ last' = NoCall
    /\ UNCHANGED << env, guard_locals, run, remote, sets, todo, domain, retries, summary, gets, posted,
                    deleted, attempts, rejected, first, refused >>

\* the first loop is over: removed_count = 0 and the second loop starts
AddDone ==
    /\ flow = "sync_blocklist"
    /\ UNCHANGED << blocklist, main_locals >>
    /\ pc = "add_loop"
    /\ todo = <<>>
    /\ removed_count' = 0
    /\ todo' = Sorted(to_remove)
    /\ pc' = "remove_loop"
    /\ attempts' = 0
    /\ rejected' = 0
    /\ last' = NoCall
    /\ UNCHANGED << env, guard_locals, run, remote, exit_status, error, sets, domain,
                    retries, added_count, already_count, failed_count, summary,
                    gets, posted, deleted, result, first, refused >>

\* the second loop of sync_blocklist: one domain of sorted(to_remove)
RemoveNext ==
    /\ flow = "sync_blocklist"
    /\ UNCHANGED << blocklist, main_locals >>
    /\ pc = "remove_loop"
    /\ todo # <<>>
    /\ UNCHANGED << env, guard_locals, run, sets, retries, added_count, already_count,
                    summary, gets, posted, attempts, rejected, first >>
    /\ domain' = Head(todo)
    /\ todo' = Tail(todo)
    /\ LET d == Head(todo)
       IN  IF SkipMutation(DRY_RUN)
           THEN /\ result' = [result EXCEPT ![d] = "dry"]
                /\ last' = NoCall
                /\ UNCHANGED << pc, exit_status, error, remote, removed_count,
                                failed_count, deleted, refused >>
           ELSE IF ~Truthy(MASTODON_HOST)
           THEN /\ Raise("MissingSchema")
                /\ UNCHANGED << remote, removed_count, failed_count,
                                deleted, result, last, refused >>
           ELSE
           /\ deleted' = deleted \cup {d}
           /\ \/ /\ Raise("ConnectionError")
                 /\ last' = [method |-> "DELETE", domain |-> d, status |-> 0,
                             due |-> 0, guard |-> 0, backoff |-> 0]
                 /\ refused' = TRUE
                 /\ UNCHANGED << remote, removed_count, failed_count, result >>
              \/ \E r \in DeleteResponses, now \in Times :
                 /\ remote' = IF Accepted(r.status) THEN remote \ {d}
                              ELSE remote
                 /\ refused' = (refused \/ ~Accepted(r.status))
                 /\ last' = [method |-> "DELETE", domain |-> d,
                             status |-> r.status,
                             due |-> RateLimitWait(r.h, now),
                             guard |-> 0, backoff |-> 0]
                 /\ IF RemoveSucceeded(r.status)
                    THEN /\ removed_count' = removed_count + 1
                         /\ result' = [result EXCEPT ![d] = "removed"]
                         /\ UNCHANGED failed_count
                    ELSE /\ failed_count' = failed_count + 1
                         /\ result' = [result EXCEPT ![d] = "failed"]
                         /\ UNCHANGED removed_count
                 /\ UNCHANGED << pc, exit_status, error >>

\* the second loop is over: log_summary, and main returns
LogSummary ==
    /\ flow = "sync_blocklist"
    /\ UNCHANGED << blocklist, main_locals >>
    /\ pc = "remove_loop"
    /\ todo = <<>>
    /\ summary' = << [added |-> added_count, failed |-> failed_count,
                      removed |-> removed_count, already |-> already_count] >>
    /\ pc' = "exit"
    /\ exit_status' = 0
    /\ last' = NoCall
    /\ UNCHANGED << env, guard_locals, run, remote, error, sets, todo, domain, retries,
                    counts, gets, posted, deleted, attempts, rejected, result,
                    first, refused >>

\* the program is run again, with the same environment and desired list,
\* against the remote list the first run left
Rerun ==
    /\ flow = "sync_blocklist"
    /\ UNCHANGED << blocklist, main_locals >>
    /\ pc = "exit"
    /\ run = 1
    /\ summary # <<>>
    /\ ~DRY_RUN
    /\ run' = 2
    /\ first' = [failed |-> failed_count > 0,
                 noop |-> \E d \in DomainNames : result[d] = "noop",
                 added |-> added_count > 0, removed |-> removed_count > 0]
    /\ pc' = "sync_blocklist"
    /\ exit_status' = 0
    /\ error' = ""
    /\ desired_blocklist' = {}
    /\ current_blocklist' = {}
    /\ to_add' = {}
    /\ to_remove' = {}
    /\ already' = {}
    /\ todo' = <<>>
    /\ domain' = <<>>
    /\ retries' = 0
    /\ added_count' = 0
    /\ removed_count' = 0
    /\ already_count' = 0
    /\ failed_count' = 0
    /\ summary' = <<>>
    /\ gets' = 0
    /\ posted' = {}
    /\ deleted' = {}
    /\ attempts' = 0
    /\ rejected' = 0
    /\ result' = NoResults
    /\ last' = NoCall
    /\ refused' = FALSE
    /\ UNCHANGED << env, guard_locals, remote >>

NextBlocklist ==
    \/ Begin
    \/ AddNext
    \/ PostAttempt
    \/ PostGiveUp
    \/ AddDone
    \/ RemoveNext
    \/ LogSummary

SpecBlocklist == InitBlocklist /\ [][NextBlocklist]_vars

\* sync_blocklist.py run twice in a row
NextTwoRuns == NextBlocklist \/ Rerun

SpecTwoRuns == InitBlocklist /\ [][NextTwoRuns]_vars

(***************************************************************************)
(* The rate-limit check of post_with_retry, on one response.               *)
(***************************************************************************)
\* the values a rate-limit header may carry
HeaderValues == { HAbsent, H0, H1, H2, H4, H9, HBad, HNeg, HIso }

\* post_with_retry has received a response to its POST
InitGuard ==
    /\ flow = "post_with_retry"
    /\ pc = "rate_limit_check"
    /\ blocklist = {}
    /\ InitCommon
    /\ MASTODON_HOST = EnvStr(<<104>>)
    /\ MASTODON_API_TOKEN = EnvStr(<<116>>)
    /\ DRY_RUN_ENV = EnvUnset
    /\ remote = {}
    /\ response \in [limit : HeaderValues, remaining : HeaderValues,
                     reset : HeaderValues]
    /\ clock \in Times

\* lines 122-145: the headers are read and the call sleeps or does not
RateLimitCheck ==
    /\ flow = "post_with_retry"
    /\ pc = "rate_limit_check"
    /\ last' = [method |-> "POST", domain |-> <<>>, status |-> 0,
                due |-> RateLimitWait(response, clock),
                guard |-> RateLimitWait(response, clock), backoff |-> 0]
    /\ pc' = "status"
    /\ UNCHANGED << env, guard_locals, blocklist, remote, exit_status, error,
                    todo, domain, gets, posted, result, blocklist_locals,
                    main_locals >>

NextGuard == RateLimitCheck

SpecGuard == InitGuard /\ [][NextGuard]_vars

(***************************************************************************)
(* main.py                                                                 *)
(***************************************************************************)
\* bounds: lines of the source list, and domains per page of the service
MaxLines == 2

PageSize == 1

\* lines of the source list: "A", "a", " b ", "#c" and the empty line
LineValues == { <<65>>, <<97>>, <<32, 98, 32>>, <<35, 99>>, <<>> }

\* the bodies the source URL may return
Texts == { JoinLines(ls) : ls \in SeqsUpTo(LineValues, MaxLines) }

\* the lines fetch_disposable_domains keeps, stripped
KeptLines(text) ==
    LET lines == SplitLines(text)
    IN  { Strip(lines[i]) : i \in { j \in 1..Len(lines) :
              Strip(lines[j]) # <<>> /\ Head(Strip(lines[j])) # 35 } }

\* the set fetch_disposable_domains returns
ParseDomains(text) == { Lower(l) : l \in KeptLines(text) }

\* dry_run of main.py
dry_run == Lower(GetEnv(DRY_RUN_ENV, StrFalse)) = StrTrue

\* rel="next" and rel="prev"
RelNext == <<114, 101, 108, 61, 34, 110, 101, 120, 116, 34>>
RelPrev == <<114, 101, 108, 61, 34, 112, 114, 101, 118, 34>>

\* s.rstrip("/")
RECURSIVE RStripSlash(_)
RStripSlash(s) ==
    IF s # <<>> /\ s[Len(s)] = 47 THEN RStripSlash(SubSeq(s, 1, Len(s) - 1))
    ELSE s

\* the URL of the first page: host, then a path written "/e"
BaseUrl == RStripSlash(MASTODON_HOST.val) \o <<47, 101>>

\* the URL of page k of the service (k = 0 is the first page)
PageUrl(k) == IF k = 0 THEN BaseUrl ELSE BaseUrl \o <<63, 48 + k>>

\* the page a URL names, -1 when the service knows no such page
PageOf(u) ==
    IF u = BaseUrl THEN 0
    ELSE IF /\ Len(u) > Len(BaseUrl) + 1
            /\ SubSeq(u, 1, Len(BaseUrl) + 1) = BaseUrl \o <<63>>
            /\ IsDigit(SubSeq(u, Len(BaseUrl) + 2, Len(u)))
         THEN DigitsValue(SubSeq(u, Len(BaseUrl) + 2, Len(u)))
    ELSE 0 - 1

\* the domain values of page k: the k-th run of PageSize stored domains
PageDomains(k) ==
    LET all == Sorted(remote)
        lo == k * PageSize + 1
        hi == IF (k + 1) * PageSize <= Len(all) THEN (k + 1) * PageSize
              ELSE Len(all)
    IN  { all[i] : i \in lo..hi }

\* the service links a next page after every full page
HasNext(k) == Cardinality(PageDomains(k)) = PageSize

\* one entry of a Link header: <url>; rel="..."
LinkEntry(u, rel) == <<60>> \o u \o <<62, 59, 32>> \o rel

\* the Link headers the service may send with page k
LinkHeaders(k) ==
    LET next == LinkEntry(PageUrl(k + 1), RelNext)
        prev == LinkEntry(PageUrl(IF k = 0 THEN 0 ELSE k - 1), RelPrev)
    IN  IF HasNext(k)
        THEN { next, next \o <<44, 32>> \o prev, prev \o <<44, 32>> \o next }
        ELSE { <<>>, prev }

\* _parse_next_link: the URL of the first rel="next" entry, "" for none
RECURSIVE FirstNext(_)
FirstNext(links) ==
    IF links = <<>> THEN <<>>
    ELSE LET parts == Split(Head(links), 59)
         IN  IF Len(parts) = 2 /\ Contains(Strip(parts[2]), RelNext)
             THEN Inner(Strip(parts[1]))
             ELSE FirstNext(Tail(links))

_parse_next_link(link_header) ==
    IF link_header = <<>> THEN <<>> ELSE FirstNext(Split(link_header, 44))

\* block_domain: raise_for_status raises for 4xx and 5xx
BlockSucceeded(status) == status < 400

InitMain ==
    /\ flow = "main"
    /\ pc = "main"
    /\ blocklist = {}
    /\ InitCommon
    /\ response = NoHeaders
    /\ clock = 0

\* main: the environment is read and checked
MainStart ==
    /\ flow = "main"
    /\ pc = "main"
    /\ IF ~Truthy(MASTODON_HOST) \/ ~Truthy(MASTODON_API_TOKEN)
       THEN /\ pc' = "exit"
            /\ exit_status' = 1
            /\ error' = "SystemExit"
       ELSE /\ pc' = "fetch_disposable_domains"
            /\ UNCHANGED << exit_status, error >>
    /\ UNCHANGED << env, guard_locals, blocklist, remote, todo, domain, gets, posted,
                    result, last, blocklist_locals, main_locals >>

\* fetch_disposable_domains, called by sync_domains
FetchDisposable ==
    /\ flow = "main"
    /\ pc = "fetch_disposable_domains"
    /\ UNCHANGED << env, guard_locals, remote, todo, domain, gets, posted, result, last,
                    blocklist_locals, existing_blocks, domains_to_add, stats,
                    requested, served >>
    /\ \/ \* requests raises, or raise_for_status does: logged and raised again
          /\ Raise("RequestException")
          /\ UNCHANGED << blocklist, disposable_domains, url, blocked_domains >>
       \/ \E text \in Texts :
          /\ blocklist' = KeptLines(text)
          /\ disposable_domains' = ParseDomains(text)
          /\ blocked_domains' = {}
          /\ url' = BaseUrl
          /\ pc' = "get_existing_blocks"
          /\ UNCHANGED << exit_status, error >>

\* what ends a page request of get_existing_blocks early
PageErrors == { "ConnectionError", "HTTPError", "JSONDecodeError", "KeyError" }

\* faulty variant: the error is logged and the pages read so far are returned
PageFailureReturnsPartial(exc) ==
    /\ error' = exc
    /\ url' = <<>>
    /\ UNCHANGED << pc, exit_status, blocked_domains, served >>

\* get_existing_blocks logs the exception and raises it again; sync_domains
\* lets it through and main exits with status 1
PageFailure(exc) ==
    /\ Raise(exc)
    /\ UNCHANGED << url, blocked_domains, served >>

\* get_existing_blocks: one pass of the loop over the pages
GetPage ==
    /\ flow = "main"
    /\ pc = "get_existing_blocks"
    /\ url # <<>>
    /\ gets' = gets + 1
    /\ requested' = Append(requested, url)
    /\ UNCHANGED << env, guard_locals, blocklist, remote, todo, domain, posted, result,
                    last, blocklist_locals, disposable_domains, existing_blocks,
                    domains_to_add, stats >>
    /\ \/ \* no response, an error status, a body that is not the JSON expected
          \E exc \in PageErrors : PageFailure(exc)
       \/ /\ PageOf(url) >= 0
          /\ \E link_header \in LinkHeaders(PageOf(url)) :
                url' = _parse_next_link(link_header)
          /\ blocked_domains' =
                blocked_domains \cup { Lower(d) : d \in PageDomains(PageOf(url)) }
          /\ served' = served \cup PageDomains(PageOf(url))
          /\ UNCHANGED << pc, exit_status, error >>

\* get_existing_blocks returns; sync_domains computes domains_to_add and stats
Diff ==
    /\ flow = "main"
    /\ pc = "get_existing_blocks"
    /\ url = <<>>
    /\ existing_blocks' = blocked_domains
    /\ domains_to_add' = disposable_domains \ blocked_domains
    /\ stats' = [total_disposable |-> Cardinality(disposable_domains),
                 existing_blocks |-> Cardinality(blocked_domains),
                 to_add |-> Cardinality(disposable_domains \ blocked_domains),
                 added |-> 0, failed |-> 0]
    /\ IF disposable_domains \ blocked_domains = {} \/ dry_run
       THEN pc' = "report" /\ UNCHANGED todo
       ELSE pc' = "block_loop"
            /\ todo' = Sorted(disposable_domains \ blocked_domains)
    /\ UNCHANGED << env, guard_locals, blocklist, remote, exit_status, error, domain, gets,
                    posted, result, last, blocklist_locals, disposable_domains,
                    url, blocked_domains, requested, served >>

\* the loop of sync_domains: block_domain for one domain
BlockNext ==
    /\ flow = "main"
    /\ pc = "block_loop"
    /\ todo # <<>>
    /\ domain' = Head(todo)
    /\ LET d == Head(todo)
       IN  /\ posted' = posted \cup {d}
           /\ todo' = Tail(todo)
           /\ \/ \* no response: RequestException, block_domain returns False
                 /\ stats' = [stats EXCEPT !.failed = @ + 1]
                 /\ result' = [result EXCEPT ![d] = "failed"]
                 /\ last' = [method |-> "POST", domain |-> d, status |-> 0,
                             due |-> 0, guard |-> 0, backoff |-> 0]
                 /\ UNCHANGED remote
              \/ \E status \in PostStatuses(MASTODON_HOST, MASTODON_API_TOKEN) :
                 /\ remote' = IF Accepted(status) THEN remote \cup {d}
                              ELSE remote
                 /\ last' = [method |-> "POST", domain |-> d, status |-> status,
                             due |-> 0, guard |-> 0, backoff |-> 0]
                 /\ IF BlockSucceeded(status)
                    THEN /\ stats' = [stats EXCEPT !.added = @ + 1]
                         /\ result' = [result EXCEPT ![d] = "added"]
                    ELSE /\ stats' = [stats EXCEPT !.failed = @ + 1]
                         /\ result' = [result EXCEPT ![d] = "failed"]
    /\ UNCHANGED << env, guard_locals, blocklist, pc, exit_status, error, gets,
                    blocklist_locals, disposable_domains, existing_blocks,
                    domains_to_add, url, blocked_domains, requested, served >>

\* the loop of sync_domains is over: it returns stats
BlockDone ==
    /\ flow = "main"
    /\ pc = "block_loop"
    /\ todo = <<>>
    /\ pc' = "report"
    /\ last' = NoCall
    /\ UNCHANGED << env, guard_locals, blocklist, remote, exit_status, error, todo, domain,
                    gets, posted, result, blocklist_locals, main_locals >>

\* main logs the statistics and exits
Report ==
    /\ flow = "main"
    /\ pc = "report"
    /\ pc' = "exit"
    /\ exit_status' = IF stats.failed > 0 THEN 1 ELSE 0
    /\ UNCHANGED << env, guard_locals, blocklist, remote, error, todo, domain, gets, posted,
                    result, last, blocklist_locals, main_locals >>

NextMain ==
    \/ MainStart
    \/ FetchDisposable
    \/ GetPage
    \/ Diff
    \/ BlockNext
    \/ BlockDone
    \/ Report

SpecMain == InitMain /\ [][NextMain]_vars

Init == InitBlocklist \/ InitMain

Next == NextBlocklist \/ NextMain

Spec == Init /\ [][Next]_vars

(***************************************************************************)
(* Claims.                                                                 *)
(***************************************************************************)
\* the domains whose operation ended as h
Ended(h) == { d \in DomainNames : result[d] = h }

C2_DuplicateTolerantAdd ==
    [][ /\ (flow = "sync_blocklist" /\ attempts' = attempts + 1
                /\ last'.status = 422) =>
              /\ pc' = "add_loop"
              /\ result'[domain] = "noop"
              /\ added_count' = added_count + 1
              /\ failed_count' = failed_count
        /\ \A d \in DomainNames :
              (flow = "sync_blocklist" /\ result[d] = "noop" /\ run' = run) =>
                  /\ result'[d] = "noop"
                  /\ ~(attempts' = attempts + 1 /\ domain' = d)
                  /\ added_count' >= added_count ]_vars

\* C2 witness: a retried POST was answered 422 and the domain is the second one counted as added.
C2_Witness ==
    /\ flow = "sync_blocklist"
    /\ last.status = 422
    /\ attempts > 1
    /\ result[domain] = "noop"
    /\ added_count = 2
    /\ failed_count = 0

\* C3: in a dry run of either program no POST and no DELETE is ever sent, and
\* the added and removed counters are 0.
C3_DryRunPurity ==
    ((flow = "sync_blocklist" /\ DRY_RUN) \/ (flow = "main" /\ dry_run)) =>
        /\ posted = {}
        /\ deleted = {}
        /\ last = NoCall
        /\ added_count = 0
        /\ removed_count = 0
        /\ stats.added = 0

\* C3 witness: a dry run of sync_blocklist with two domains to add and some to remove has printed its summary.
C3_Witness ==
    /\ flow = "sync_blocklist"
    /\ DRY_RUN
    /\ pc = "exit"
    /\ summary # <<>>
    /\ Cardinality(to_add) = 2
    /\ to_remove # {}

\* the domain values the remote service returned to the run
Fetched == IF flow = "main" THEN served ELSE current_blocklist

\* C4 as stated: a domain of the desired list that differs only in letter case
\* from a domain the remote service returned is treated as already blocked:
\* no POST is sent for it and no DELETE for its remote counterpart.
C4_CaseNormalization ==
    \A s \in blocklist, r \in Fetched :
        (s # r /\ Lower(s) = Lower(r)) =>
            /\ \A p \in posted : Lower(p) # Lower(s)
            /\ r \notin deleted

\* C5 as stated: after a run of sync_blocklist that was not a dry run and
\* reported no failed mutation, the next run with the same desired list
\* finds nothing to add or remove and sends no POST and no DELETE.
C5_IdempotenceAsStated ==
    (flow = "sync_blocklist" /\ run = 2 /\ ~first.failed) =>
        /\ posted = {}
        /\ deleted = {}
        /\ to_add = {}
        /\ to_remove = {}

\* C5 amended: the same, for a first run in which no add was answered 422.
C5_Idempotence ==
    (flow = "sync_blocklist" /\ run = 2 /\ ~first.failed /\ ~first.noop) =>
        /\ posted = {}
        /\ deleted = {}
        /\ to_add = {}
        /\ to_remove = {}

\* C5 witness: a second run has ended after a first run that added and removed without failure or 422.
C5_Witness ==
    /\ flow = "sync_blocklist"
    /\ run = 2
    /\ ~first.failed
    /\ ~first.noop
    /\ first.added
    /\ first.removed
    /\ pc = "exit"
    /\ summary # <<>>
    /\ Cardinality(already) = 2

\* host and token are both present
ConfigPresent == Truthy(MASTODON_HOST) /\ Truthy(MASTODON_API_TOKEN)

\* C6 as stated: with the host or the token missing, the run sends no state
\* fetch, no POST and no DELETE.
C6_ConfigurationGuard ==
    ~ConfigPresent =>
        /\ gets = 0
        /\ posted = {}
        /\ deleted = {}

\* C7 as stated: with the configuration present, a run in which a mutation
\* was recorded as failed does not end with exit status zero.
C7_ExitStatus ==
    (pc = "exit" /\ ConfigPresent /\ exit_status = 0) =>
        /\ Ended("failed") = {}
        /\ failed_count = 0
        /\ stats.failed = 0

\* C8: in main.py, once a page request of get_existing_blocks has failed, the
\* run is over with exit status 1, no diff was computed and no POST was sent.
C8_AbortOnFetchFailure ==
    (flow = "main" /\ error \in PageErrors) =>
        /\ pc = "exit"
        /\ exit_status = 1
        /\ posted = {}
        /\ existing_blocks = {}
        /\ domains_to_add = {}
        /\ stats = NoStats

\* C8 witness: the second page request failed after a first page was read, with domains left to add.
C8_Witness ==
    /\ flow = "main"
    /\ error = "HTTPError"
    /\ Len(requested) = 2
    /\ blocked_domains # {}
    /\ disposable_domains \ blocked_domains # {}
    /\ ~dry_run

\* the number of pages of the chain the service holds
ChainLen == (Cardinality(remote) \div PageSize) + 1

\* C9: get_existing_blocks asks for the pages of the chain in order, each once,
\* stops after the first page without a next link, and has then collected
\* exactly the lower-cased domain values of all the pages.
C9_Pagination ==
    (flow = "main" /\ pc = "get_existing_blocks") =>
        /\ Len(requested) <= ChainLen
        /\ \A k \in 1..Len(requested) : requested[k] = PageUrl(k - 1)
        /\ url # <<>> => (url = PageUrl(Len(requested))
                            /\ Len(requested) < ChainLen)
        /\ (url = <<>> /\ requested # <<>>) =>
               /\ Len(requested) = ChainLen
               /\ served = remote
               /\ blocked_domains = { Lower(d) : d \in remote }

\* C9 witness: the loop has ended after three pages that held two domains.
C9_Witness ==
    /\ flow = "main"
    /\ pc = "get_existing_blocks"
    /\ url = <<>>
    /\ Len(requested) = 3
    /\ Cardinality(served) = 2
    /\ Cardinality(blocked_domains) = 2

\* C10 as stated: a run of sync_blocklist that is not a dry run and has begun
\* reconciliation ends with the summary printed and with a POST sent for
\* every domain to add and a DELETE for every domain to remove.
C10_PartialFailureTolerance ==
    (/\ flow = "sync_blocklist"
     /\ ConfigPresent
     /\ ~DRY_RUN
     /\ pc = "exit"
     /\ error \notin { "MastodonError", "AttributeError" }) =>
        /\ summary # <<>>
        /\ to_add \subseteq posted
        /\ to_remove \subseteq deleted

\* C11 as stated: a mutation call answered with a 2xx status is counted as a
\* success: the domain of an add ends as added, the domain of a remove as
\* removed, and neither as failed.
C11_SuccessClassification ==
    (flow = "sync_blocklist" /\ last.method # "" /\ Accepted(last.status)) =>
        /\ result[last.domain] # "failed"
        /\ last.method = "POST" => result[last.domain] = "added"
        /\ last.method = "DELETE" => result[last.domain] = "removed"

\* C12 as stated: a run of sync_blocklist that is not a dry run, in which
\* every mutation call was answered with success (a 2xx status), passes to
\* log_summary added = |D - C|, removed = |C - D|, already = |D /\ C| and
\* failed = 0.
C12_TallyOnFullSuccess ==
    (/\ flow = "sync_blocklist"
     /\ ~DRY_RUN
     /\ pc = "exit"
     /\ summary # <<>>
     /\ ~refused) =>
        /\ summary[1].added = Cardinality(desired_blocklist \ current_blocklist)
        /\ summary[1].removed = Cardinality(current_blocklist \ desired_blocklist)
        /\ summary[1].already = Cardinality(desired_blocklist \cap current_blocklist)
        /\ summary[1].failed = 0

\* C13 as stated: the failed-add figure log_summary prints ("Domains failed
\* to add") is the number of domains of to_add whose add ended in failure; a
\* failed remove does not count in it.
C13_SeparateFailureTallies ==
    (flow = "sync_blocklist" /\ pc = "exit" /\ summary # <<>>) =>
        summary[1].failed =
            Cardinality({ d \in to_add : result[d] = "failed" })

\* C14 as stated: in every run of sync_blocklist, dry run or not, the
\* already-blocked figure log_summary prints is |D /\ C|.
C14_AlreadyBlockedTally ==
    (flow = "sync_blocklist" /\ pc = "exit" /\ summary # <<>>) =>
        summary[1].already =
            Cardinality(desired_blocklist \cap current_blocklist)

\* the desired set and the current set the run obtained at its start
DesiredSet == IF flow = "main" THEN disposable_domains ELSE desired_blocklist
CurrentSet == IF flow = "main" THEN existing_blocks ELSE current_blocklist

\* C15: in both programs every POST is for a domain of D - C and every DELETE
\* for a domain of C - D: no call is sent for a domain of D /\ C, no domain
\* of D is removed, and no domain gets both a POST and a DELETE.
C15_MutationTargets ==
    /\ posted \subseteq DesiredSet \ CurrentSet
    /\ deleted \subseteq CurrentSet \ DesiredSet
    /\ (posted \cup deleted) \cap (DesiredSet \cap CurrentSet) = {}
    /\ deleted \cap DesiredSet = {}
    /\ posted \cap deleted = {}

\* C15 witness: a run of sync_blocklist has ended after a POST and a DELETE, with one desired domain already blocked.
C15_Witness ==
    /\ flow = "sync_blocklist"
    /\ pc = "exit"
    /\ summary # <<>>
    /\ posted # {}
    /\ deleted # {}
    /\ Cardinality(already) = 1
    /\ result[CHOOSE d \in already : TRUE] = "already"

\* the reset value is an integer epoch or an ISO8601 time
ResetParses(reset) == IsDigit(reset) \/ FromIso(RStripZ(reset)).ok

\* the epoch a reset value that parses stands for
ResetEpoch(reset) ==
    IF IsDigit(reset) THEN DigitsValue(reset) ELSE FromIso(RStripZ(reset)).val

\* C16 as stated: for a response whose remaining value is an integer and
\* whose reset value is a time, the rate-limit check sleeps
\* max(reset - now, 1) seconds when remaining is 1 and does not sleep for any
\* other value, whether or not the limit header is present.
C16_RateLimitPause ==
    (/\ flow = "post_with_retry"
     /\ pc = "status"
     /\ ParseInt(response.remaining).ok
     /\ ResetParses(response.reset)) =>
        last.guard = IF ParseInt(response.remaining).val = 1
                     THEN Max(ResetEpoch(response.reset) - clock, 1)
                     ELSE 0

\* C17 as stated: for a response whose remaining value or reset value is
\* absent or does not parse, the rate-limit check does not sleep and raises
\* nothing.
C17_NoPauseWithoutData ==
    (/\ flow = "post_with_retry"
     /\ pc = "status"
     /\ \/ ~ParseInt(response.remaining).ok
        \/ ~ResetParses(response.reset)) =>
        /\ last.guard = 0
        /\ error = ""

\* C18 as stated: in a run of sync_blocklist that is not a dry run, the
\* rate-limit check is applied to the response of every mutation call, POST
\* or DELETE: the call sleeps as long as the check gives for the headers of
\* the response before anything else is sent.
C18_GuardCoverage ==
    (/\ flow = "sync_blocklist"
     /\ ~DRY_RUN
     /\ last.method \in { "POST", "DELETE" }
     /\ last.status # 0) =>
        last.guard = last.due

\* C19 as stated: in sync_blocklist a mutation call, POST or DELETE, answered
\* 429 on its first attempts does not end the operation of the domain: the
\* domain is not recorded as failed and stays the one the run is working on.
C19_RateLimitNotTerminal ==
    (/\ flow = "sync_blocklist"
     /\ last.status = 429
     /\ error = ""
     /\ attempts <= MAX_RETRIES) =>
        /\ result[last.domain] = ""
        /\ domain = last.domain
        /\ pc \in { "post_with_retry", "remove_loop" }

\* C20: in a run of sync_blocklist every POST is sent before any DELETE; the
\* domains of the POSTs, and those of the DELETEs, come in ascending order,
\* all the POSTs for one domain in a row; no call is sent for a domain whose
\* operation has ended, and an outcome once recorded stays.
C20_Ordering ==
    [][ flow = "sync_blocklist" =>
          /\ attempts' = attempts + 1 =>
                /\ deleted = {}
                /\ deleted' = {}
                /\ result[domain] = ""
                /\ domain' = domain
                /\ posted' = posted \cup {domain}
                /\ \A p \in posted : p = domain \/ StrLess(p, domain)
          /\ deleted' # deleted =>
                /\ pc = "remove_loop"
                /\ posted' = posted
                /\ attempts' = attempts
                /\ result[domain'] = ""
                /\ deleted' = deleted \cup {domain'}
                /\ \A p \in deleted : StrLess(p, domain')
          /\ \A d \in DomainNames :
                (result[d] # "" /\ run' = run) => result'[d] = result[d] ]_vars

\* C20 witness: a run has ended after POSTs for two domains, one of them counted as added and one as failed, and DELETEs for two domains.
C20_Witness ==
    /\ flow = "sync_blocklist"
    /\ pc = "exit"
    /\ summary # <<>>
    /\ Cardinality(posted) = 2
    /\ Cardinality(deleted) = 2
    /\ Ended("added") # {}
    /\ Ended("failed") \cap to_add # {}
    /\ Ended("removed") # {}

=============================================================================
